---- MODULE Spec2Model ----
(***************************************************************************)
(* Model of src/app.py: the bank-statement pipeline that extracts table   *)
(* rows from the pages of a PDF and streams them, in chunks, to a Google   *)
(* Sheets worksheet.                                                       *)
(*                                                                         *)
(* The external collaborators are modelled by what the code asks of them:  *)
(*   - pdfplumber: open() succeeds or raises; a page's extract_table()     *)
(*     returns None, or a list of rows (lists of str/None cells);          *)
(*   - gspread: worksheet.clear() and worksheet.update(range, values)      *)
(*     either succeed or raise; a call that raises leaves the worksheet    *)
(*     as it was;                                                          *)
(*   - pandas (the 1.x/2.x line that goes with the gspread 5 call form     *)
(*     update(range, values) used here): astype(str) renders each value    *)
(*     with str(), so None becomes the text "None".                        *)
(***************************************************************************)
EXTENDS Integers, Sequences, FiniteSets, TLC

VARIABLES
    uploaded_pdf,      \* the input: [openable, num_pages]
    progress_callback, \* "none" (None) or "callback"
    CHUNK_PAGES,       \* the configured flush threshold (app.py line 45)
    worksheets,        \* number of worksheets named WORKSHEET_NAME in the spreadsheet
    sheet,             \* worksheet content: sequence of rows, each a sequence of cells
    prior_sheet,       \* history: worksheet content when the current run started
    run,               \* history: ordinal of the current run of the pipeline
    pc,                \* position inside process_pdf_and_stream_to_gsheet
    failure,           \* the exception that left the function, or "none"
    total_pages,       \* len(pdf.pages)
    page_idx,          \* loop variable of enumerate(pdf.pages, start=1)
    chunk_records,     \* the pending batch
    next_row_index,    \* the write position
    total_records,     \* running count of records
    returned,          \* the value returned by the function, or NoReturn
    calls,             \* history: worksheet API calls issued in this run
    flushes,           \* history: batches passed to append_chunk_to_worksheet
    pages,             \* history: the tables extract_table() returned, in page order
    events,            \* history: progress notifications and page scans, in order
    row,               \* a raw row handed to the row normalisation
    record             \* the record the normalisation produced from it

vars == <<uploaded_pdf, progress_callback, CHUNK_PAGES, worksheets, sheet,
          prior_sheet, run, pc, failure, total_pages, page_idx, chunk_records,
          next_row_index, total_records, returned, calls, flushes, pages,
          events, row, record>>

----------------------------------------------------------------------------
(* Bounds of the model *)

MaxPages == 5
MaxChunk == 2
MaxPagesRerun == 2
MaxRuns == 2
MaxRowLen == 9
MaxTableRows == 3
MaxStartRow == 4

----------------------------------------------------------------------------
(* Values *)

\* Python's None as a cell value; distinct from every str, in particular
\* from the text "None".
None == "<None>"

NoReturn == -1

ORDERED_COLS ==
    << "Posting Date", "Value Date", "Transaction Branch", "Reference Number",
       "Description", "Debit", "Credit", "Balance" >>

\* Key order of the dict literal built for each row.
RecordKeys ==
    << "Posting Date", "Value Date", "Transaction Branch", "Reference Number",
       "Description", "Debit", "Credit", "Balance" >>

Range(s) == { s[i] : i \in DOMAIN s }

Max(a, b) == IF a >= b THEN a ELSE b

NoRecord == [k \in {} |-> ""]

----------------------------------------------------------------------------
(* Row normalisation: lines 163-188 *)

\* [""] * 8
EmptyCells == [i \in 1..8 |-> ""]

\* mutant of PadTruncate: the last 8 cells kept instead of the first 8
PadTruncateTail(r) == SubSeq(r \o EmptyCells, Len(r) + 1, Len(r) + 8)

\* row = (row + [""] * 8)[:8]
PadTruncate(r) == SubSeq(r \o EmptyCells, 1, 8)

\* the tuple unpacking and the dict literal: key i receives cell i
MakeRecord(r) ==
    LET cells == PadTruncate(r)
    IN  [k \in Range(RecordKeys) |->
            cells[CHOOSE i \in DOMAIN RecordKeys : RecordKeys[i] = k]]

\* for row in table[1:]: ... chunk_records.append({...})
RECURSIVE RecordsOf(_)
RecordsOf(rows) ==
    IF rows = <<>> THEN <<>>
    ELSE <<MakeRecord(Head(rows))>> \o RecordsOf(Tail(rows))

\* mutant of DataRows: the first row kept as data
DataRowsKeepHeader(table) == table

\* table[1:]
DataRows(table) == IF Len(table) <= 1 THEN <<>> ELSE Tail(table)

----------------------------------------------------------------------------
(* Sink writer: lines 91-117 *)

\* DataFrame.astype(str) on one value
AsTypeStr(v) == IF v = None THEN "None" ELSE v

\* DataFrame.fillna("") on one value
FillNa(v) == IF v = None THEN "" ELSE v

\* df_chunk[ORDERED_COLS].astype(str).fillna("").values.tolist(), one record
RowValues(rec) == [i \in DOMAIN ORDERED_COLS |-> FillNa(AsTypeStr(rec[ORDERED_COLS[i]]))]

ChunkValues(chunk) == [i \in DOMAIN chunk |-> RowValues(chunk[i])]

BlankRow == <<>>

\* mutant of WorksheetClear: the old content left in place
WorksheetClearNothing(ws) == ws

\* worksheet.clear()
WorksheetClear(ws) == <<>>

\* worksheet.update("A<r>", values): overwrites rows r .. r+len(values)-1
WorksheetUpdate(ws, r, values) ==
    [i \in 1..Max(Len(ws), r + Len(values) - 1) |->
        IF i >= r /\ i < r + Len(values) THEN values[i - r + 1]
        ELSE IF i <= Len(ws) THEN ws[i]
        ELSE BlankRow]

\* mutants of NextRow: the last row counted twice; the position not advanced
NextRowOffByOne(start_row, values) == start_row + Len(values) - 1

NextRowStuck(start_row, values) == start_row

\* next_row = start_row + len(values)
NextRow(start_row, values) == start_row + Len(values)

\* mutant of IsEmptyChunk: the emptiness test dropped
IsEmptyChunkNever(chunk) == FALSE

\* df_chunk.empty
IsEmptyChunk(chunk) == chunk = <<>>

\* append_chunk_to_worksheet, when worksheet.update succeeds:
\* the new worksheet content and the returned row index
append_chunk_to_worksheet(ws, chunk, start_row) ==
    IF IsEmptyChunk(chunk)
    THEN [ws |-> ws, next_row |-> start_row, wrote |-> FALSE]
    ELSE [ws |-> WorksheetUpdate(ws, start_row, ChunkValues(chunk)),
          next_row |-> NextRow(start_row, ChunkValues(chunk)),
          wrote |-> TRUE]

----------------------------------------------------------------------------
(* Inputs *)

HeaderRow == ORDERED_COLS

\* a short row with a null cell, and a row wider than the schema
ShortRow == << "d1", None, "b1" >>
LongRow == << "d2", "v2", "b2", "r2", "x2", "1", "2", "3", "e1", "e2" >>

\* what page.extract_table() can return: None (detected = FALSE) or a matrix
NoTable == [detected |-> FALSE, rows |-> <<>>]
Table(rows) == [detected |-> TRUE, rows |-> rows]

PageTables ==
    { NoTable,
      Table(<< >>),
      Table(<< HeaderRow >>),
      Table(<< HeaderRow, ShortRow >>),
      Table(<< HeaderRow, LongRow, ShortRow >>) }

\* every value extract_table() can return with at most n rows, the first row
\* a header or not
AllTables(n) ==
    { NoTable } \cup
    { Table(r) : r \in UNION { [1..k -> {HeaderRow, ShortRow, LongRow}] : k \in 0..n } }

\* Python truthiness of the value returned by extract_table()
Truthy(table) == table.detected /\ table.rows # <<>>

Cells == { "a", "b", None }

\* the raw rows of at most n cells
RawRows(n) == UNION { [1..k -> Cells] : k \in 0..n }

Uploads(maxPages) == [openable : BOOLEAN, num_pages : 0..maxPages]

----------------------------------------------------------------------------
(* Initial states *)

\* locals of process_pdf_and_stream_to_gsheet before they are assigned
LocalsUnset ==
    /\ failure = "none"
    /\ total_pages = 0
    /\ page_idx = 0
    /\ chunk_records = <<>>
    /\ next_row_index = 0
    /\ total_records = 0
    /\ returned = NoReturn
    /\ calls = <<>>
    /\ flushes = <<>>
    /\ pages = <<>>
    /\ events = <<>>

Init ==
    /\ uploaded_pdf \in Uploads(MaxPages)
    /\ progress_callback \in {"none", "callback"}
    /\ CHUNK_PAGES \in 1..MaxChunk
    /\ worksheets \in {0, 1}
    /\ sheet = <<>>
    /\ prior_sheet = <<>>
    /\ run = 1
    /\ pc = "start"
    /\ LocalsUnset
    /\ row = <<>>
    /\ record = NoRecord

InitRerun ==
    /\ uploaded_pdf \in Uploads(MaxPagesRerun)
    /\ progress_callback \in {"none", "callback"}
    /\ CHUNK_PAGES \in 1..MaxChunk
    /\ worksheets \in {0, 1}
    /\ sheet = <<>>
    /\ prior_sheet = <<>>
    /\ run = 1
    /\ pc = "start"
    /\ LocalsUnset
    /\ row = <<>>
    /\ record = NoRecord

InitNorm ==
    /\ uploaded_pdf = [openable |-> TRUE, num_pages |-> 0]
    /\ progress_callback = "none"
    /\ CHUNK_PAGES = 1
    /\ worksheets = 1
    /\ sheet = <<>>
    /\ prior_sheet = <<>>
    /\ run = 1
    /\ pc = "normalize"
    /\ LocalsUnset
    /\ row \in RawRows(MaxRowLen)
    /\ record = NoRecord

\* worksheets and batches append_chunk_to_worksheet can be called with
AppendSheets ==
    { << ORDERED_COLS >>,
      << ORDERED_COLS, RowValues(MakeRecord(LongRow)) >>,
      << ORDERED_COLS, RowValues(MakeRecord(LongRow)), RowValues(MakeRecord(ShortRow)) >> }

AppendChunks ==
    UNION { [1..k -> {MakeRecord(ShortRow), MakeRecord(LongRow)}] : k \in 0..2 }

\* a call of append_chunk_to_worksheet(worksheet, df_chunk, start_row)
InitAppend ==
    /\ uploaded_pdf = [openable |-> TRUE, num_pages |-> 0]
    /\ progress_callback = "none"
    /\ CHUNK_PAGES = 1
    /\ worksheets = 1
    /\ sheet \in AppendSheets
    /\ prior_sheet = <<>>
    /\ run = 1
    /\ pc = "append"
    /\ failure = "none"
    /\ total_pages = 0
    /\ page_idx = 0
    /\ chunk_records \in AppendChunks
    /\ next_row_index \in 1..MaxStartRow
    /\ total_records = 0
    /\ returned = NoReturn
    /\ calls = <<>>
    /\ flushes = <<>>
    /\ pages = <<>>
    /\ events = <<>>
    /\ row = <<>>
    /\ record = NoRecord

\* the state at line 153, before the loop over a one-page document
InitPage ==
    /\ uploaded_pdf = [openable |-> TRUE, num_pages |-> 1]
    /\ progress_callback \in {"none", "callback"}
    /\ CHUNK_PAGES \in 1..MaxChunk
    /\ worksheets = 1
    /\ sheet = << ORDERED_COLS >>
    /\ prior_sheet = <<>>
    /\ run = 1
    /\ pc = "loop"
    /\ failure = "none"
    /\ total_pages = 1
    /\ page_idx = 0
    /\ chunk_records = <<>>
    /\ next_row_index = 2
    /\ total_records = 0
    /\ returned = NoReturn
    /\ calls = << [op |-> "clear", row |-> 0, values |-> <<>>, ok |-> TRUE, page |-> 0],
                  [op |-> "update", row |-> 1, values |-> << ORDERED_COLS >>,
                   ok |-> TRUE, page |-> 0] >>
    /\ flushes = <<>>
    /\ pages = <<>>
    /\ events = <<>>
    /\ row = <<>>
    /\ record = NoRecord

----------------------------------------------------------------------------
(* process_pdf_and_stream_to_gsheet: lines 124-223 *)

ClearCall == [op |-> "clear", row |-> 0, values |-> <<>>, ok |-> TRUE, page |-> 0]
UpdateCall(r, values, ok, page) ==
    [op |-> "update", row |-> r, values |-> values, ok |-> ok, page |-> page]

Raise(exc) ==
    /\ pc' = "failed"
    /\ failure' = exc

\* mutant of WorksheetsAfterLookup: add_worksheet called without the lookup
WorksheetsAfterAdd(n) == n + 1

\* lines 79-86: sh.worksheet(name), and add_worksheet only on WorksheetNotFound;
\* n is the number of worksheets of that name before the call
WorksheetsAfterLookup(n) == IF n = 0 THEN 1 ELSE n

\* lines 142-143: client = get_gspread_client();
\* worksheet = get_or_create_worksheet(client) (lines 75-88)
get_or_create_worksheet ==
    /\ pc = "start"
    /\ worksheets' = WorksheetsAfterLookup(worksheets)
    /\ pc' = "init_header"
    /\ UNCHANGED <<uploaded_pdf, progress_callback, CHUNK_PAGES, sheet, prior_sheet,
                   run, failure, total_pages, page_idx, chunk_records,
                   next_row_index, total_records, returned, calls, flushes,
                   pages, events, row, record>>

\* lines 144-146: next_row_index = init_worksheet_with_header(worksheet)
\* (lines 91-98), then total_records = 0
init_worksheet_with_header ==
    /\ pc = "init_header"
    /\ sheet' = WorksheetUpdate(WorksheetClear(sheet), 1, <<ORDERED_COLS>>)
    /\ calls' = calls \o <<ClearCall, UpdateCall(1, <<ORDERED_COLS>>, TRUE, 0)>>
    /\ next_row_index' = 2
    /\ total_records' = 0
    /\ pc' = "open"
    /\ UNCHANGED <<uploaded_pdf, progress_callback, CHUNK_PAGES, worksheets,
                   prior_sheet, run, failure, total_pages, page_idx,
                   chunk_records, returned, flushes, pages, events, row, record>>

\* line 96 raises
ClearFails ==
    /\ pc = "init_header"
    /\ calls' = Append(calls, [ClearCall EXCEPT !.ok = FALSE])
    /\ Raise("TransferFailure")
    /\ UNCHANGED <<uploaded_pdf, progress_callback, CHUNK_PAGES, worksheets, sheet,
                   prior_sheet, run, total_pages, page_idx, chunk_records,
                   next_row_index, total_records, returned, flushes, pages,
                   events, row, record>>

\* line 96 succeeds, line 97 raises
HeaderUpdateFails ==
    /\ pc = "init_header"
    /\ sheet' = WorksheetClear(sheet)
    /\ calls' = calls \o <<ClearCall, UpdateCall(1, <<ORDERED_COLS>>, FALSE, 0)>>
    /\ Raise("TransferFailure")
    /\ UNCHANGED <<uploaded_pdf, progress_callback, CHUNK_PAGES, worksheets,
                   prior_sheet, run, total_pages, page_idx, chunk_records,
                   next_row_index, total_records, returned, flushes, pages,
                   events, row, record>>

\* lines 148-151: with pdfplumber.open(pdf_file) as pdf: total_pages = ...
OpenPdf ==
    /\ pc = "open"
    /\ uploaded_pdf.openable
    /\ total_pages' = uploaded_pdf.num_pages
    /\ chunk_records' = <<>>
    /\ page_idx' = 0
    /\ pc' = "loop"
    /\ UNCHANGED <<uploaded_pdf, progress_callback, CHUNK_PAGES, worksheets, sheet,
                   prior_sheet, run, failure, next_row_index, total_records,
                   returned, calls, flushes, pages, events, row, record>>

\* line 148 raises: the bytes are not a readable PDF
OpenFails ==
    /\ pc = "open"
    /\ ~uploaded_pdf.openable
    /\ Raise("ParseFailure")
    /\ UNCHANGED <<uploaded_pdf, progress_callback, CHUNK_PAGES, worksheets, sheet,
                   prior_sheet, run, total_pages, page_idx, chunk_records,
                   next_row_index, total_records, returned, calls, flushes,
                   pages, events, row, record>>

\* mutant of ProgressEvents: the page counted from 0
ProgressEventsZeroBased(k) ==
    IF progress_callback # "none" /\ total_pages > 0
    THEN << [ev |-> "progress", page |-> k - 1, total |-> total_pages] >>
    ELSE << >>

\* line 155-156: the progress notification of one loop iteration
ProgressEvents(k) ==
    IF progress_callback # "none" /\ total_pages > 0
    THEN << [ev |-> "progress", page |-> k, total |-> total_pages] >>
    ELSE << >>

ScanEvent(k) == [ev |-> "scan", page |-> k, total |-> total_pages]

\* mutant of IterationEvents: the notification sent once the page is scanned
IterationEventsScanFirst(k) == <<ScanEvent(k)>> \o ProgressEvents(k)

\* lines 154-158: the notification, then page.extract_table()
IterationEvents(k) == ProgressEvents(k) \o <<ScanEvent(k)>>

\* mutant of FlushDue: the page index taken as 0-based
FlushDueZeroBased(idx, chunk) == (idx - 1) % CHUNK_PAGES = 0 /\ chunk # <<>>

\* line 192: if page_idx % CHUNK_PAGES == 0 and chunk_records
FlushDue(idx, chunk) == idx % CHUNK_PAGES = 0 /\ chunk # <<>>

\* mutant of ScanPageFrom: `break` in place of `continue`, the loop is left at
\* the first page without a table
ScanPageFromBreaks(tables) ==
    /\ pc = "loop"
    /\ page_idx < total_pages
    /\ events' = events \o IterationEvents(page_idx + 1)
    /\ \E table \in tables :
          /\ pages' = Append(pages, table)
          /\ IF ~Truthy(table)
             THEN /\ UNCHANGED <<chunk_records, total_records>>
                  /\ page_idx' = total_pages
                  /\ pc' = "loop"
             ELSE LET added == RecordsOf(DataRows(table.rows))
                  IN  /\ page_idx' = page_idx + 1
                      /\ chunk_records' = chunk_records \o added
                      /\ total_records' = total_records + Len(added)
                      /\ pc' = IF FlushDue(page_idx + 1, chunk_records \o added)
                               THEN "flush" ELSE "loop"
    /\ UNCHANGED <<uploaded_pdf, progress_callback, CHUNK_PAGES, worksheets, sheet,
                   prior_sheet, run, failure, total_pages, next_row_index,
                   returned, calls, flushes, row, record>>

\* lines 153-192: one iteration of the page loop up to the flush test, the
\* page's table being one of `tables`
ScanPageFrom(tables) ==
    /\ pc = "loop"
    /\ page_idx < total_pages
    /\ page_idx' = page_idx + 1
    /\ events' = events \o IterationEvents(page_idx + 1)
    /\ \E table \in tables :
          /\ pages' = Append(pages, table)
          /\ IF ~Truthy(table)
             THEN \* line 160: continue
                  /\ UNCHANGED <<chunk_records, total_records>>
                  /\ pc' = "loop"
             ELSE LET added == RecordsOf(DataRows(table.rows))
                  IN  /\ chunk_records' = chunk_records \o added
                      /\ total_records' = total_records + Len(added)
                      /\ pc' = IF FlushDue(page_idx + 1, chunk_records \o added)
                               THEN "flush" ELSE "loop"
    /\ UNCHANGED <<uploaded_pdf, progress_callback, CHUNK_PAGES, worksheets, sheet,
                   prior_sheet, run, failure, total_pages, next_row_index,
                   returned, calls, flushes, row, record>>

ScanPage == ScanPageFrom(PageTables)

\* the same iteration, the table being any matrix of at most MaxTableRows rows
ScanAnyPage == ScanPageFrom(AllTables(MaxTableRows))

\* lines 153-189 as a function of the document: the value total_records has
\* after the loop over the pages pp
RECURSIVE CountRecords(_)
CountRecords(pp) ==
    IF pp = <<>> THEN 0
    ELSE (IF Truthy(Head(pp)) THEN Len(RecordsOf(DataRows(Head(pp).rows))) ELSE 0)
         + CountRecords(Tail(pp))

\* mutant of Flushed: the batch not cleared after the write
FlushedKeepsBatch(res) ==
    /\ sheet' = res.ws
    /\ next_row_index' = res.next_row
    /\ calls' = IF res.wrote
                THEN Append(calls, UpdateCall(next_row_index,
                                              ChunkValues(chunk_records), TRUE, page_idx))
                ELSE calls
    /\ flushes' = Append(flushes, [page |-> page_idx, start_row |-> next_row_index,
                                   size |-> Len(chunk_records),
                                   next_row |-> res.next_row, ok |-> TRUE])
    /\ chunk_records' = chunk_records

\* lines 193-201 and 207-213: the batch handed to append_chunk_to_worksheet,
\* the returned row kept, the batch cleared
Flushed(res) ==
    /\ sheet' = res.ws
    /\ next_row_index' = res.next_row
    /\ calls' = IF res.wrote
                THEN Append(calls, UpdateCall(next_row_index,
                                              ChunkValues(chunk_records), TRUE, page_idx))
                ELSE calls
    /\ flushes' = Append(flushes, [page |-> page_idx, start_row |-> next_row_index,
                                   size |-> Len(chunk_records),
                                   next_row |-> res.next_row, ok |-> TRUE])
    /\ chunk_records' = <<>>

FlushRaises ==
    /\ ~IsEmptyChunk(chunk_records)
    /\ calls' = Append(calls, UpdateCall(next_row_index,
                                         ChunkValues(chunk_records), FALSE, page_idx))
    /\ flushes' = Append(flushes, [page |-> page_idx, start_row |-> next_row_index,
                                   size |-> Len(chunk_records),
                                   next_row |-> next_row_index, ok |-> FALSE])
    /\ Raise("TransferFailure")
    /\ UNCHANGED <<sheet, next_row_index, chunk_records>>

\* lines 193-203: the flush inside the loop
MidRunFlush ==
    /\ pc = "flush"
    /\ Flushed(append_chunk_to_worksheet(sheet, chunk_records, next_row_index))
    /\ pc' = "loop"
    /\ UNCHANGED <<uploaded_pdf, progress_callback, CHUNK_PAGES, worksheets,
                   prior_sheet, run, failure, total_pages, page_idx,
                   total_records, returned, pages, events, row, record>>

\* mutant of MidRunFlushFails: the exception swallowed, the loop goes on
MidRunFlushFailureSwallowed ==
    /\ pc = "flush"
    /\ ~IsEmptyChunk(chunk_records)
    /\ calls' = Append(calls, UpdateCall(next_row_index,
                                         ChunkValues(chunk_records), FALSE, page_idx))
    /\ flushes' = Append(flushes, [page |-> page_idx, start_row |-> next_row_index,
                                   size |-> Len(chunk_records),
                                   next_row |-> next_row_index, ok |-> FALSE])
    /\ pc' = "loop"
    /\ UNCHANGED <<uploaded_pdf, progress_callback, CHUNK_PAGES, worksheets, sheet,
                   prior_sheet, run, failure, total_pages, page_idx,
                   chunk_records, next_row_index, total_records, returned,
                   pages, events, row, record>>

\* line 114 raises during the flush inside the loop
MidRunFlushFails ==
    /\ pc = "flush"
    /\ FlushRaises
    /\ UNCHANGED <<uploaded_pdf, progress_callback, CHUNK_PAGES, worksheets,
                   prior_sheet, run, total_pages, page_idx,
                   total_records, returned, pages, events, row, record>>

\* mutant of FinalFlushDue: the flush after the last page forgotten
FinalFlushDueNever(chunk) == FALSE

\* line 206: if chunk_records
FinalFlushDue(chunk) == chunk # <<>>

\* lines 206-223: the flush after the last page, then the return
FinalFlush ==
    /\ pc = "loop"
    /\ page_idx = total_pages
    /\ FinalFlushDue(chunk_records)
    /\ Flushed(append_chunk_to_worksheet(sheet, chunk_records, next_row_index))
    /\ returned' = total_records
    /\ pc' = "done"
    /\ UNCHANGED <<uploaded_pdf, progress_callback, CHUNK_PAGES, worksheets,
                   prior_sheet, run, failure, total_pages, page_idx,
                   total_records, pages, events, row, record>>

\* line 114 raises during the flush after the last page
FinalFlushFails ==
    /\ pc = "loop"
    /\ page_idx = total_pages
    /\ FinalFlushDue(chunk_records)
    /\ FlushRaises
    /\ UNCHANGED <<uploaded_pdf, progress_callback, CHUNK_PAGES, worksheets,
                   prior_sheet, run, total_pages, page_idx,
                   total_records, returned, pages, events, row, record>>

\* lines 206, 217-223: nothing pending after the last page; return
Return ==
    /\ pc = "loop"
    /\ page_idx = total_pages
    /\ ~FinalFlushDue(chunk_records)
    /\ returned' = total_records
    /\ pc' = "done"
    /\ UNCHANGED <<uploaded_pdf, progress_callback, CHUNK_PAGES, worksheets, sheet,
                   prior_sheet, run, failure, total_pages, page_idx,
                   chunk_records, next_row_index, total_records, calls,
                   flushes, pages, events, row, record>>

\* lines 249-270: the user uploads another file and presses the button again;
\* the function runs again against the same worksheet
ProcessAgain ==
    /\ pc \in {"done", "failed"}
    /\ run < MaxRuns
    /\ run' = run + 1
    /\ uploaded_pdf' \in Uploads(MaxPagesRerun)
    /\ progress_callback' \in {"none", "callback"}
    /\ prior_sheet' = sheet
    /\ pc' = "start"
    /\ failure' = "none"
    /\ total_pages' = 0
    /\ page_idx' = 0
    /\ chunk_records' = <<>>
    /\ next_row_index' = 0
    /\ total_records' = 0
    /\ returned' = NoReturn
    /\ calls' = <<>>
    /\ flushes' = <<>>
    /\ pages' = <<>>
    /\ events' = <<>>
    /\ UNCHANGED <<CHUNK_PAGES, worksheets, sheet, row, record>>

\* lines 163-188 applied to one raw row
Normalize ==
    /\ pc = "normalize"
    /\ record' = MakeRecord(row)
    /\ pc' = "normalized"
    /\ UNCHANGED <<uploaded_pdf, progress_callback, CHUNK_PAGES, worksheets, sheet,
                   prior_sheet, run, failure, total_pages, page_idx,
                   chunk_records, next_row_index, total_records, returned,
                   calls, flushes, pages, events, row>>

\* lines 101-117: append_chunk_to_worksheet(worksheet, df_chunk, start_row)
\* called on its own; next_row_index receives the returned row
AppendChunk ==
    /\ pc = "append"
    /\ LET res == append_chunk_to_worksheet(sheet, chunk_records, next_row_index)
       IN  /\ sheet' = res.ws
           /\ next_row_index' = res.next_row
           /\ calls' = IF res.wrote
                       THEN Append(calls, UpdateCall(next_row_index,
                                                     ChunkValues(chunk_records), TRUE, 0))
                       ELSE calls
    /\ pc' = "appended"
    /\ UNCHANGED <<uploaded_pdf, progress_callback, CHUNK_PAGES, worksheets,
                   prior_sheet, run, failure, total_pages, page_idx,
                   chunk_records, total_records, returned, flushes, pages,
                   events, row, record>>

Next ==
    \/ get_or_create_worksheet
    \/ init_worksheet_with_header
    \/ ClearFails
    \/ HeaderUpdateFails
    \/ OpenPdf
    \/ OpenFails
    \/ ScanPage
    \/ MidRunFlush
    \/ MidRunFlushFails
    \/ FinalFlush
    \/ FinalFlushFails
    \/ Return

NextRerun ==
    \/ Next
    \/ ProcessAgain

NextNorm == Normalize

NextPage ==
    \/ ScanAnyPage
    \/ MidRunFlush
    \/ FinalFlush
    \/ Return

Spec == Init /\ [][Next]_vars

SpecRerun == InitRerun /\ [][NextRerun]_vars

SpecNorm == InitNorm /\ [][NextNorm]_vars

SpecPage == InitPage /\ [][NextPage]_vars

NextAppend == AppendChunk

SpecAppend == InitAppend /\ [][NextAppend]_vars

----------------------------------------------------------------------------
(* The document as the destination should show it *)

\* the data rows of the pages, in page order then row order
RECURSIVE DocRows(_)
DocRows(pp) ==
    IF pp = <<>> THEN <<>>
    ELSE LET t == Head(pp)
         IN  (IF t.detected /\ Len(t.rows) >= 2 THEN Tail(t.rows) ELSE <<>>)
             \o DocRows(Tail(pp))

\* the page each data row comes from
RECURSIVE DocRowPages(_, _)
DocRowPages(pp, k) ==
    IF pp = <<>> THEN <<>>
    ELSE LET t == Head(pp)
         IN  (IF t.detected /\ Len(t.rows) >= 2
              THEN [i \in 1..(Len(t.rows) - 1) |-> k] ELSE <<>>)
             \o DocRowPages(Tail(pp), k + 1)

\* str() of a cell value
PyStr(v) == IF v = None THEN "None" ELSE v

\* the 8 cells a raw row is expected to fill, values rendered by str()
SheetRowOf(raw) == [i \in 1..8 |-> IF i <= Len(raw) THEN PyStr(raw[i]) ELSE ""]

ExpectedSheet(pp) ==
    << ORDERED_COLS >> \o [i \in 1..Len(DocRows(pp)) |-> SheetRowOf(DocRows(pp)[i])]

RECURSIVE SumSizes(_, _)
SumSizes(fl, n) == IF n = 0 THEN 0 ELSE fl[n].size + SumSizes(fl, n - 1)

\* number of data rows on pages a..b of the pages scanned so far
RowsOnPages(a, b) ==
    Cardinality({ i \in DOMAIN DocRowPages(pages, 1) :
                    DocRowPages(pages, 1)[i] >= a /\ DocRowPages(pages, 1)[i] <= b })

----------------------------------------------------------------------------
(* C1: after a successful run the worksheet holds the header in row 1 and, *)
(* in rows 2..1+N, the N records of the document in page order then row    *)
(* order, each as its 8 values in column order (a value shown as str()     *)
(* renders it), nothing missing, duplicated or reordered, and no record is *)
(* left pending.                                                           *)
C1_SheetHoldsDocument ==
    pc = "done" =>
        /\ sheet = ExpectedSheet(pages)
        /\ Len(sheet) = 1 + returned
        /\ chunk_records = <<>>

C1_Witness ==
    /\ pc = "done"
    /\ Len(flushes) >= 2
    /\ Len(sheet) >= 5
    /\ \E i \in DOMAIN pages : ~pages[i].detected
    /\ sheet[2] # sheet[3]

(* C2: at every point the pending batch holds records from at most         *)
(* CHUNK_PAGES consecutive pages, for any document, also one in which      *)
(* some pages have no detected table.                                      *)
C2_BatchSpansAtMostChunkPages ==
    chunk_records # <<>> =>
        LET src == DocRowPages(pages, 1)
            first == src[Len(src) - Len(chunk_records) + 1]
            last == src[Len(src)]
        IN  last - first + 1 <= CHUNK_PAGES

(* C3: when opening the source document fails, no worksheet.clear and no   *)
(* worksheet.update has been issued and the worksheet is as it was before  *)
(* the run.                                                                *)
C3_ParseFailureBeforeAnyWrite ==
    failure = "ParseFailure" => (calls = <<>> /\ sheet = prior_sheet)

(* C4: the count returned equals the sum of the sizes of all batches       *)
(* passed to append_chunk_to_worksheet during the run.                     *)
C4_Conservation ==
    pc = "done" => returned = SumSizes(flushes, Len(flushes))

C4_Witness ==
    /\ pc = "done"
    /\ Len(flushes) >= 2
    /\ returned >= 3
    /\ \E i \in DOMAIN pages : ~Truthy(pages[i])

(* C5: when every page contributes at least one record, the i-th batch is  *)
(* handed over right after page i*CHUNK_PAGES, a last batch follows the    *)
(* last page when the page count is no multiple of CHUNK_PAGES, each batch *)
(* holds the records of the pages since the previous one, and the write    *)
(* position after each batch is 2 plus the number of records written.      *)
C5_EveryPageContributes ==
    \A i \in DOMAIN pages : pages[i].detected /\ Len(pages[i].rows) >= 2

C5_FlushSequence ==
    C5_EveryPageContributes =>
        /\ \A i \in DOMAIN flushes :
              /\ flushes[i].page = IF i * CHUNK_PAGES <= total_pages
                                   THEN i * CHUNK_PAGES ELSE total_pages
              /\ flushes[i].size = RowsOnPages((i - 1) * CHUNK_PAGES + 1, flushes[i].page)
              /\ flushes[i].start_row = 2 + SumSizes(flushes, i - 1)
              /\ flushes[i].ok => flushes[i].next_row = 2 + SumSizes(flushes, i)
        /\ pc = "loop" => Len(flushes) = page_idx \div CHUNK_PAGES
        /\ pc = "done" =>
              /\ Len(flushes) = (total_pages + CHUNK_PAGES - 1) \div CHUNK_PAGES
              /\ next_row_index = 2 + returned

C5_Witness ==
    /\ pc = "done"
    /\ CHUNK_PAGES = 2
    /\ total_pages = 5
    /\ \A i \in DOMAIN pages : pages[i].detected /\ Len(pages[i].rows) = 2
    /\ [i \in DOMAIN flushes |-> flushes[i].size] = <<2, 2, 1>>
    /\ [i \in DOMAIN flushes |-> flushes[i].next_row] = <<4, 6, 7>>

(* C6: every value of a record and every cell written to the worksheet   *)
(* is a string, and a source cell that is absent or null appears as the    *)
(* empty string, never as null and never as any other text.                *)
C6_ValuesAreStrings ==
    /\ \A i \in DOMAIN chunk_records : \A k \in DOMAIN chunk_records[i] :
          chunk_records[i][k] # None
    /\ \A i \in DOMAIN sheet : \A k \in DOMAIN sheet[i] : sheet[i][k] # None
    /\ pc = "done" =>
          \A i \in DOMAIN DocRows(pages) : \A k \in 1..8 :
              LET raw == DocRows(pages)[i]
              IN  (k > Len(raw) \/ raw[k] = None) => sheet[i + 1][k] = ""

(* C7: for a raw row of any length n >= 0 the record has exactly the 8     *)
(* canonical fields; field i holds cell i when i <= n and the empty string *)
(* beyond n; cells past the 8th are dropped; normalisation never fails.    *)
C7_NormalizePositional ==
    pc = "normalized" =>
        /\ DOMAIN record = Range(ORDERED_COLS)
        /\ Cardinality(DOMAIN record) = 8
        /\ \A i \in 1..8 :
              record[ORDERED_COLS[i]] = IF i <= Len(row) THEN row[i] ELSE ""

C7_Witness ==
    /\ pc = "normalized"
    /\ Len(row) = 9
    /\ row[1] = None
    /\ row[8] = "a"
    /\ row[9] = "b"
    /\ record["Balance"] = "a"

(* C8: when a worksheet write fails during a flush the failure leaves the  *)
(* function, the batch is not written again, no later page is scanned, no  *)
(* further write is issued, and the rows written by the earlier successful *)
(* flushes stay: the worksheet holds the header and a prefix of the        *)
(* document's records.                                                     *)
C8_FailedFlush(i) ==
    /\ pc = "failed"
    /\ failure = "TransferFailure"
    /\ returned = NoReturn
    /\ i = Len(flushes)
    /\ ~calls[Len(calls)].ok
    /\ calls[Len(calls)].row = flushes[i].start_row
    /\ Cardinality({ c \in DOMAIN calls : calls[c].row = flushes[i].start_row }) = 1
    /\ Len(pages) = flushes[i].page
    /\ page_idx = flushes[i].page
    /\ next_row_index = flushes[i].start_row
    /\ sheet = SubSeq(ExpectedSheet(pages), 1, flushes[i].start_row - 1)

C8_TransferFailureHalts ==
    \A i \in DOMAIN flushes : ~flushes[i].ok => C8_FailedFlush(i)

C8_Witness ==
    /\ pc = "failed"
    /\ Len(flushes) >= 2
    /\ ~flushes[Len(flushes)].ok
    /\ Len(sheet) >= 3
    /\ Len(pages) < total_pages

(* C9: when the pipeline has run before against the same worksheet, after  *)
(* a later run completes the worksheet holds only the header and that      *)
(* run's records: no row of an earlier run remains, also when the earlier  *)
(* document had more records.                                              *)
C9_OverwriteSemantics ==
    (run >= 2 /\ pc = "done") =>
        /\ Len(sheet) = 1 + Len(DocRows(pages))
        /\ sheet[1] = ORDERED_COLS
        /\ \A i \in 2..Len(sheet) : sheet[i] = SheetRowOf(DocRows(pages)[i - 1])

C9_Witness ==
    /\ run = 2
    /\ pc = "done"
    /\ Len(prior_sheet) > Len(sheet)
    /\ Len(sheet) >= 2
    /\ prior_sheet[2] # sheet[2]

(* C10: the write position is 2 after header initialisation and never      *)
(* decreases during the run; no batch write targets row 1 and no batch     *)
(* write starts at a row an earlier batch of the run already wrote.        *)
C10_Positions ==
    /\ pc = "open" => next_row_index = 2
    /\ pc \in {"loop", "flush", "done"} => next_row_index >= 2
    /\ \A i \in DOMAIN flushes :
          /\ flushes[i].start_row >= 2
          /\ flushes[i].next_row >= flushes[i].start_row
          /\ flushes[i].start_row <= next_row_index
          /\ \A j \in 1..(i - 1) :
                /\ flushes[j].next_row <= flushes[i].start_row
                /\ flushes[j].start_row + flushes[j].size <= flushes[i].start_row
    /\ \A c \in DOMAIN calls :
          (calls[c].op = "update" /\ calls[c].page > 0) => calls[c].row >= 2

C10_WritePosition ==
    [] C10_Positions /\ [][next_row_index' >= next_row_index]_vars

C10_Witness ==
    /\ Len(flushes) >= 3
    /\ flushes[3].ok
    /\ flushes[3].start_row >= 4
    /\ next_row_index > flushes[3].start_row

(* C11: on every page row 0 of the table is dropped whatever it holds and  *)
(* each other row gives exactly one record, in row order, so a table       *)
(* [header, d1, d2] gives 2 records; a page with no table, an empty table  *)
(* or fewer than 2 rows gives none and is no error.                        *)
C11_RecordOf(raw) ==
    [k \in Range(ORDERED_COLS) |->
        LET i == CHOOSE j \in 1..8 : ORDERED_COLS[j] = k
        IN  IF i <= Len(raw) THEN raw[i] ELSE ""]

C11_HeaderSkip ==
    LET rows == DocRows(pages)
        n == Len(rows)
        m == Len(chunk_records)
    IN  /\ total_records = n
        /\ m <= n
        /\ \A i \in 1..m : chunk_records[i] = C11_RecordOf(rows[n - m + i])
        /\ \A p \in DOMAIN pages :
              RowsOnPages(p, p) = IF pages[p].detected /\ Len(pages[p].rows) >= 2
                                  THEN Len(pages[p].rows) - 1 ELSE 0
        /\ (pages # <<>> /\ n = 0) => (failure = "none" /\ pc \in {"loop", "done"})

C11_Witness ==
    /\ pc = "loop"
    /\ pages = << Table(<< ShortRow, LongRow, ShortRow >>) >>
    /\ total_records = 2
    /\ chunk_records[1]["Posting Date"] = "d2"
    /\ chunk_records[2]["Posting Date"] = "d1"

(* C12: the count returned for a document is the count returned for the   *)
(* document without its pages that have no detected table.                 *)
C12_WithoutNoTablePages(pp) == SelectSeq(pp, LAMBDA t : t.detected)

C12_NoTablePagesTransparent ==
    pc = "done" =>
        /\ Len(pages) = total_pages
        /\ returned = CountRecords(pages)
        /\ returned = CountRecords(C12_WithoutNoTablePages(pages))

C12_Witness ==
    /\ pc = "done"
    /\ total_pages = 5
    /\ ~pages[2].detected
    /\ ~pages[4].detected
    /\ \A i \in {1, 3, 5} : Len(pages[i].rows) >= 2
    /\ returned >= 3

(* C13: with a progress callback, it is called exactly once per page, also *)
(* for pages without a table, with (k, total_pages) for k = 1, 2, ... in   *)
(* increasing order and the same total_pages on every call.                *)
C13_ProgressCalls == SelectSeq(events, LAMBDA e : e.ev = "progress")

C13_ProgressOncePerPage ==
    progress_callback # "none" =>
        /\ C13_ProgressCalls =
              [k \in 1..page_idx |-> [ev |-> "progress", page |-> k, total |-> total_pages]]
        /\ page_idx = Len(pages)
        /\ pc = "done" => Len(C13_ProgressCalls) = uploaded_pdf.num_pages

C13_Witness ==
    /\ pc = "done"
    /\ progress_callback = "callback"
    /\ total_pages = 4
    /\ Len(C13_ProgressCalls) = 4
    /\ ~pages[2].detected
    /\ C13_ProgressCalls[4].page = 4

(* C14: the progress notification for page k is sent after page k has     *)
(* been scanned and its records added, and before page k+1 is scanned.     *)
C14_ProgressAfterPage ==
    \A i \in DOMAIN events :
        events[i].ev = "progress" =>
            /\ \E j \in 1..(i - 1) :
                  events[j].ev = "scan" /\ events[j].page = events[i].page
            /\ \A j \in 1..(i - 1) :
                  events[j].ev = "scan" => events[j].page <= events[i].page

(* C14 as amended: the progress notification for page k is sent at the     *)
(* start of page k's iteration: after page k-1 has been scanned and its    *)
(* records added, and right before page k is scanned.                      *)
C14_ProgressBeforePage ==
    \A i \in DOMAIN events :
        events[i].ev = "progress" =>
            /\ i < Len(events)
            /\ events[i + 1].ev = "scan"
            /\ events[i + 1].page = events[i].page
            /\ \A j \in 1..(i - 1) :
                  events[j].ev = "scan" => events[j].page < events[i].page
            /\ events[i].page > 1 =>
                  \E j \in 1..(i - 1) :
                      events[j].ev = "scan" /\ events[j].page = events[i].page - 1

C14_Witness ==
    /\ progress_callback = "callback"
    /\ Len(events) = 6
    /\ events[5] = [ev |-> "progress", page |-> 3, total |-> total_pages]
    /\ events[6].ev = "scan"
    /\ Len(DocRows(pages)) >= 3

(* C15: append_chunk_to_worksheet called with an empty batch issues no    *)
(* write to the worksheet and returns the start position it was given,     *)
(* for every start position.                                               *)
C15_EmptyBatchNoOp ==
    [][(pc = "append" /\ chunk_records = <<>>) =>
          (sheet' = sheet /\ calls' = calls /\ next_row_index' = next_row_index)]_vars

C15_Witness ==
    /\ pc = "appended"
    /\ chunk_records = <<>>
    /\ calls = <<>>
    /\ next_row_index = MaxStartRow
    /\ Len(sheet) = 1

(* C16: a document from which no record is extracted (no pages, or only   *)
(* pages without a table or with a header row alone) makes the run return  *)
(* 0 without failure, issues no batch write and leaves the worksheet with  *)
(* the header row only.                                                    *)
C16_EmptyResult ==
    Len(DocRows(pages)) = 0 =>
        /\ pc = "done" =>
              /\ returned = 0
              /\ sheet = << ORDERED_COLS >>
              /\ Len(calls) = 2
              /\ \A c \in DOMAIN calls : calls[c].page = 0 /\ calls[c].row <= 1
        /\ pages # <<>> => failure = "none"
        /\ (pc = "failed" /\ uploaded_pdf.openable) =>
              (failure = "TransferFailure" /\ ~calls[Len(calls)].ok
               /\ calls[Len(calls)].row <= 1)

C16_Witness ==
    /\ pc = "done"
    /\ pages = << NoTable, Table(<< >>), Table(<< HeaderRow >>) >>
    /\ returned = 0
    /\ sheet = << ORDERED_COLS >>

(* C17: get_or_create_worksheet creates the worksheet only when none of    *)
(* the configured name exists; however often it is called it yields the    *)
(* same worksheet, and the spreadsheet never holds two of that name.       *)
C17_OneWorksheet ==
    /\ worksheets <= 1
    /\ pc # "start" => worksheets = 1

C17_Idempotent ==
    /\ [] C17_OneWorksheet
    /\ [][worksheets' # worksheets => (worksheets = 0 /\ worksheets' = 1)]_vars
    /\ [][(pc = "start" /\ pc' = "init_header") => sheet' = sheet]_vars

C17_Witness ==
    /\ run = 2
    /\ pc = "init_header"
    /\ worksheets = 1
    /\ Len(sheet) >= 2
    /\ sheet = prior_sheet

(* C18: right after every successful flush the pending batch is empty; a  *)
(* flush completes or fails before any record of a later page is added;    *)
(* no record is in two flushed batches.                                    *)
RECURSIVE C18_Concat(_)
C18_Concat(ss) == IF ss = <<>> THEN <<>> ELSE Head(ss) \o C18_Concat(Tail(ss))

C18_WrittenBatches ==
    LET written == SelectSeq(calls, LAMBDA c : c.op = "update" /\ c.page > 0 /\ c.ok)
    IN  [i \in DOMAIN written |-> written[i].values]

C18_Partition ==
    LET rows == Tail(ExpectedSheet(pages))
        flushed == C18_Concat(C18_WrittenBatches)
    IN  /\ Len(flushed) + Len(chunk_records) = Len(rows)
        /\ flushed = SubSeq(rows, 1, Len(flushed))

C18_FlushThenScan ==
    /\ [] C18_Partition
    /\ [][(Len(flushes') > Len(flushes) /\ flushes'[Len(flushes')].ok)
             => chunk_records' = <<>>]_vars
    /\ [][pc = "flush" => (Len(flushes') = Len(flushes) + 1 /\ pages' = pages)]_vars
    /\ [][pages' # pages => (pc = "loop" /\ \A i \in DOMAIN flushes : flushes[i].ok)]_vars

C18_Witness ==
    /\ pc = "loop"
    /\ page_idx < total_pages
    /\ Len(flushes) = 2
    /\ flushes[1].ok /\ flushes[2].ok
    /\ flushes[1].size >= 2
    /\ chunk_records = <<>>

(* C19: at the end of every page iteration and at the end of the run,      *)
(* total_records = (next_row_index - 2) + the number of pending records;   *)
(* so on successful completion next_row_index = 2 + total_records.         *)
C19_LoopInvariant ==
    /\ pc \in {"loop", "flush", "done"} =>
          total_records = (next_row_index - 2) + Len(chunk_records)
    /\ pc = "done" => (next_row_index = 2 + total_records /\ returned = total_records)

C19_Witness ==
    /\ pc = "loop"
    /\ page_idx >= 3
    /\ next_row_index > 2
    /\ chunk_records # <<>>
    /\ total_records >= 4

(* C20: a flush inside the loop is issued only right after a page whose    *)
(* 1-based index is a multiple of CHUNK_PAGES, whose table is non-empty,   *)
(* with a non-empty pending batch; a page without a table skips the flush  *)
(* test, so pending records stay in the batch until the next such page or  *)
(* the flush after the last page.                                          *)
C20_Qualifies(p, size) ==
    /\ p % CHUNK_PAGES = 0
    /\ p \in DOMAIN pages
    /\ Truthy(pages[p])
    /\ size > 0

C20_FlushPointsNow ==
    /\ pc = "flush" =>
          (C20_Qualifies(page_idx, Len(chunk_records)) /\ Len(pages) = page_idx)
    /\ \A i \in DOMAIN flushes :
          \/ C20_Qualifies(flushes[i].page, flushes[i].size)
          \/ /\ i = Len(flushes)
             /\ pc \in {"done", "failed"}
             /\ flushes[i].page = total_pages
             /\ flushes[i].size > 0

====
